---- MODULE Spec2Model ----
(***************************************************************************)
(* A model of the two batch stages of the repository:                      *)
(*   script/desnormalizar.py  build_staging   (raw files -> staging)       *)
(*   script/tablas.py         build_dimensions, build_facts                *)
(*                                            (staging -> warehouse)       *)
(* File names and column names are strings, tables are sequences of rows,  *)
(* a row is a function from column names to values.                        *)
(***************************************************************************)
EXTENDS Integers, Sequences, FiniteSets, TLC

VARIABLES
    \* ---- build_staging, the rule loop on one file name
    name,        \* p.stem.lower() of the file under the rule loop
    k,           \* position of the rule loop in mapping_rules
    target,      \* the canonical name found, "" while none
    \* ---- build_staging, the loop over the raw files
    raw_files,   \* list(RAW_DIR.glob("*.csv")) + list(RAW_DIR.glob("*.parquet"))
    idx,         \* position of the loop over raw_files
    processed,   \* the set `processed`
    events,      \* what the loop did with each file so far, in order
    ret,         \* "exited", "running", or the value build_staging returned
    stagingDir,  \* STAGING_DIR: target -> format -> "none", or the file there: "new"
                 \* (written by the current run) or "old" (left by an earlier run)
    \* ---- tablas.py: build_dimensions, build_facts
    pc,          \* the block of main() that runs next
    stg,         \* STAGING_DIR as tablas.py reads it: name -> format -> frame or None
    dims,        \* the dict `dims`
    facts,       \* the frame each fact block handed to write_table
    dwh,         \* DWH_DIR: file name -> frame written
    io           \* what the host lets a write do during this run

stagingVars == <<raw_files, idx, processed, events, ret, stagingDir>>
ruleVars == <<name, k, target>>
dwVars == <<pc, stg, dims, facts, dwh, io>>
vars == <<name, k, target, raw_files, idx, processed, events, ret, stagingDir,
          pc, stg, dims, facts, dwh, io>>

------------------------------------------------------------------------------
(* Bounds *)

MaxFiles == 2      \* raw files in RAW_DIR in one run
MaxRows == 2       \* rows of a staging table that feeds a dimension
MaxId == 2         \* natural keys of the dimension tables are 1..MaxId
MaxLines == 2      \* rows of order_items and of orders when the facts are built

------------------------------------------------------------------------------
(* Strings *)

UpperLetters == "ABCDEFGHIJKLMNOPQRSTUVWXYZ"
LowerLetters == "abcdefghijklmnopqrstuvwxyz"

CharAt(s, i) == SubSeq(s, i, i)

LowerChar(c) ==
    IF \E i \in 1..26 : CharAt(UpperLetters, i) = c
    THEN CharAt(LowerLetters, CHOOSE i \in 1..26 : CharAt(UpperLetters, i) = c)
    ELSE c

RECURSIVE Lower(_)
\* str.lower()
Lower(s) == IF s = "" THEN "" ELSE LowerChar(CharAt(s, 1)) \o Lower(SubSeq(s, 2, Len(s)))

\* the Python test `sub in s` on strings
Contains(sub, s) ==
    \E i \in 1..(Len(s) - Len(sub) + 1) : SubSeq(s, i, i + Len(sub) - 1) = sub

------------------------------------------------------------------------------
(* mapping_rules *)

\* a variant of the dict display with the general `order` rule ahead of the item rules
MappingLiteralReordered ==
    << <<"customer", "customers">>, <<"product", "products">>,
       <<"store", "stores">>, <<"channel", "stores">>,
       <<"order", "orders">>,
       <<"order_item", "order_items">>, <<"sales_order_item", "order_items">>,
       <<"sales_order", "orders">>, <<"sales_order_item", "order_items">>,
       <<"payment", "payment">>, <<"shipment", "shipment">>,
       <<"web_session", "web_session">>, <<"nps_response", "nps_response">>,
       <<"province", "province">>, <<"product_category", "product_category">>,
       <<"address", "address">> >>

\* the dict display as written, keyword -> canonical name, in source order
MappingLiteral ==
    << <<"customer", "customers">>, <<"product", "products">>,
       <<"store", "stores">>, <<"channel", "stores">>,
       <<"order_item", "order_items">>, <<"sales_order_item", "order_items">>,
       <<"sales_order", "orders">>, <<"sales_order_item", "order_items">>,
       <<"order", "orders">>,
       <<"payment", "payment">>, <<"shipment", "shipment">>,
       <<"web_session", "web_session">>, <<"nps_response", "nps_response">>,
       <<"province", "province">>, <<"product_category", "product_category">>,
       <<"address", "address">> >>

RECURSIVE DictOf(_, _)
\* a dict display: a repeated key keeps its first position and takes the last value
DictOf(lit, acc) ==
    IF lit = <<>> THEN acc
    ELSE LET kv == Head(lit)
             at == {i \in 1..Len(acc) : acc[i][1] = kv[1]}
         IN DictOf(Tail(lit),
                   IF at = {} THEN Append(acc, kv)
                   ELSE [i \in 1..Len(acc) |-> IF i \in at THEN kv ELSE acc[i]])

mapping_rules == DictOf(MappingLiteral, <<>>)

RECURSIVE FindTarget(_, _)
\* for k, v in mapping_rules.items(): if k in name: target = v; break
\* if target is None: target = name
FindTarget(nm, i) ==
    IF i > Len(mapping_rules) THEN nm
    ELSE IF Contains(mapping_rules[i][1], nm) THEN mapping_rules[i][2]
    ELSE FindTarget(nm, i + 1)

------------------------------------------------------------------------------
(* The rule loop of build_staging, one rule per step *)

CanonicalNames ==
    {"customers", "products", "stores", "orders", "order_items", "dates", "payment",
     "shipment", "web_session", "nps_response", "address", "province",
     "product_category"}

BaseStems ==
    CanonicalNames \cup
    {"Customer_Data", "sales_order_item_detail", "sales_order", "channels", "items"}

\* file name stems: the base ones and every two of them joined
Stems == BaseStems \cup {a \o "_" \o b : a \in BaseStems, b \in BaseStems}

CanonInit ==
    /\ name \in {Lower(s) : s \in Stems}
    /\ k = 1
    /\ target = ""
    /\ raw_files = <<>> /\ idx = 1 /\ processed = {} /\ events = <<>>
    /\ ret = "exited" /\ stagingDir = <<>>
    /\ pc = "idle" /\ stg = <<>> /\ dims = <<>> /\ facts = <<>> /\ dwh = <<>> /\ io = "ok"

\* one iteration of `for k, v in mapping_rules.items()` whose test fails
RuleMiss ==
    /\ target = ""
    /\ k <= Len(mapping_rules)
    /\ ~Contains(mapping_rules[k][1], name)
    /\ k' = k + 1
    /\ UNCHANGED <<name, target>>
    /\ UNCHANGED <<stagingVars, dwVars>>

\* the iteration whose test succeeds: target = v; break
RuleHit ==
    /\ target = ""
    /\ k <= Len(mapping_rules)
    /\ Contains(mapping_rules[k][1], name)
    /\ target' = mapping_rules[k][2]
    /\ UNCHANGED <<name, k>>
    /\ UNCHANGED <<stagingVars, dwVars>>

\* the loop ran out: target = name
RuleNone ==
    /\ target = ""
    /\ k > Len(mapping_rules)
    /\ target' = name
    /\ UNCHANGED <<name, k>>
    /\ UNCHANGED <<stagingVars, dwVars>>

CanonNext == RuleMiss \/ RuleHit \/ RuleNone

SpecCanon == CanonInit /\ [][CanonNext]_vars

------------------------------------------------------------------------------
(* C5, C6: the canonical name of a raw file *)

Hits == {i \in 1..Len(mapping_rules) : Contains(mapping_rules[i][1], name)}

FirstHit == CHOOSE i \in Hits : \A j \in Hits : i <= j

FirstRuleWins ==
    /\ Hits = {} => target = name
    /\ Hits # {} => target = mapping_rules[FirstHit][2]

EarlierKeywords == {"customer", "product", "store", "channel"}

\* C5 (as amended): once the rule loop has ended, the canonical name is the target
\* of the first rule (in the rule table's order) whose keyword the lower-cased stem
\* contains, and the stem itself when there is none; a stem containing order_item
\* never maps to orders, and maps to order_items unless it also contains one of
\* the keywords customer, product, store, channel, whose rules come earlier.
C5_FirstRuleWins ==
    target # "" =>
        /\ FirstRuleWins
        /\ Contains("order_item", name) =>
              /\ target # "orders"
              /\ (\A e \in EarlierKeywords : ~Contains(e, name)) => target = "order_items"

C5_Witness == name = "sales_order_item_detail" /\ target = "order_items"

\* C5 (as stated): first rule wins, and every stem containing order_item maps to
\* order_items and never to orders.
C5_EveryItemStemMapsToOrderItems ==
    target # "" =>
        /\ FirstRuleWins
        /\ Contains("order_item", name) => target = "order_items"

\* C6: a raw file whose stem is one of the thirteen canonical entity names is
\* mapped to that same name.
C6_CanonicalStemMapsToItself ==
    (target # "" /\ name \in CanonicalNames) => target = name

------------------------------------------------------------------------------
(* build_staging: the loop over the raw files, across successive runs *)

Formats == {"parquet", "csv"}

\* the file names RAW_DIR may hold: two stems that map to one canonical name, one
\* stem in both formats, and a stem that maps elsewhere
RawNames ==
    { [stem |-> "orders", ext |-> "csv"], [stem |-> "Sales_Order", ext |-> "csv"],
      [stem |-> "orders", ext |-> "parquet"], [stem |-> "products", ext |-> "parquet"] }

StagingStems == {f.stem : f \in RawNames}

\* a raw file on disk; kind is what reading it gives: a non-empty frame ("ok"),
\* an empty frame ("empty"), or an exception ("unreadable")
RawFile ==
    {[stem |-> f.stem, ext |-> f.ext, kind |-> kd] :
        f \in RawNames, kd \in {"ok", "empty", "unreadable"}}

\* raw_files = glob("*.csv") + glob("*.parquet"): distinct file names, every csv
\* ahead of every parquet, any order within a format
RawDirs ==
    {fs \in UNION {[1..n -> RawFile] : n \in 0..MaxFiles} :
        \A i, j \in 1..Len(fs) :
            i < j => /\ <<fs[i].stem, fs[i].ext>> # <<fs[j].stem, fs[j].ext>>
                     /\ ~(fs[i].ext = "parquet" /\ fs[j].ext = "csv")}

\* name and target of each file RAW_DIR may hold, as the loop body computes them
NameOfStem == [s \in StagingStems |-> Lower(s)]
TargetOfStem == [s \in StagingStems |-> FindTarget(NameOfStem[s], 1)]

TargetNames == {TargetOfStem[s] : s \in StagingStems}

NoFiles == [t \in TargetNames |-> [f \in Formats |-> "none"]]

\* before the first run: STAGING_DIR was just created
StagingInit ==
    /\ name = "" /\ k = 1 /\ target = ""
    /\ raw_files = <<>>
    /\ idx = 1
    /\ processed = {}
    /\ events = <<>>
    /\ ret = "exited"
    /\ stagingDir = NoFiles
    /\ pc = "idle" /\ stg = <<>> /\ dims = <<>> /\ facts = <<>> /\ dwh = <<>> /\ io = "ok"

\* the stage is started on whatever RAW_DIR holds now; STAGING_DIR is as the
\* earlier runs left it
StartRun ==
    /\ ret = "exited"
    /\ raw_files' \in RawDirs
    /\ idx' = 1
    /\ processed' = {}
    /\ events' = <<>>
    /\ ret' = "running"
    /\ stagingDir' = [t \in TargetNames |-> [f \in Formats |->
                          IF stagingDir[t][f] = "none" THEN "none" ELSE "old"]]
    /\ UNCHANGED <<name, k, target>>
    /\ UNCHANGED dwVars

\* if not raw_files: return False
NoRawFiles ==
    /\ ret = "running"
    /\ raw_files = <<>>
    /\ ret' = "False"
    /\ UNCHANGED <<name, k, target, raw_files, idx, processed, events, stagingDir>>
    /\ UNCHANGED dwVars

\* the loop body up to the test on `processed`, for the file at idx
Looping == ret = "running" /\ idx <= Len(raw_files)

\* the part of every path of the loop body: name, target, and the next file
Advance(ev) ==
    /\ name' = NameOfStem[raw_files[idx].stem]
    /\ target' = TargetOfStem[raw_files[idx].stem]
    /\ events' = Append(events, ev)
    /\ idx' = idx + 1
    /\ UNCHANGED <<k, raw_files, ret>>
    /\ UNCHANGED dwVars

\* if target in processed: continue
SkipProcessed ==
    /\ Looping
    /\ TargetOfStem[raw_files[idx].stem] \in processed
    /\ Advance("skip")
    /\ UNCHANGED <<processed, stagingDir>>

\* a variant of ReadFails that counts the unreadable file as processed
ReadFailsMarksProcessed ==
    /\ Looping
    /\ TargetOfStem[raw_files[idx].stem] \notin processed
    /\ raw_files[idx].kind = "unreadable"
    /\ Advance("unreadable")
    /\ processed' = processed \cup {TargetOfStem[raw_files[idx].stem]}
    /\ UNCHANGED stagingDir

\* the read raises: warn and continue, before processed.add(target)
ReadFails ==
    /\ Looping
    /\ TargetOfStem[raw_files[idx].stem] \notin processed
    /\ raw_files[idx].kind = "unreadable"
    /\ Advance("unreadable")
    /\ UNCHANGED <<processed, stagingDir>>

Readable(kind) ==
    /\ Looping
    /\ TargetOfStem[raw_files[idx].stem] \notin processed
    /\ raw_files[idx].kind = kind

\* write_staging returns at once on an empty frame; processed.add(target)
WriteEmpty ==
    /\ Readable("empty")
    /\ Advance("empty")
    /\ processed' = processed \cup {TargetOfStem[raw_files[idx].stem]}
    /\ UNCHANGED stagingDir

\* df.to_parquet succeeds
WriteParquet ==
    /\ Readable("ok")
    /\ Advance("parquet")
    /\ processed' = processed \cup {TargetOfStem[raw_files[idx].stem]}
    /\ stagingDir' = [stagingDir EXCEPT ![TargetOfStem[raw_files[idx].stem]]["parquet"] = "new"]

\* df.to_parquet raises (no file is touched), df.to_csv succeeds
WriteCsvFallback ==
    /\ Readable("ok")
    /\ Advance("csv")
    /\ processed' = processed \cup {TargetOfStem[raw_files[idx].stem]}
    /\ stagingDir' = [stagingDir EXCEPT ![TargetOfStem[raw_files[idx].stem]]["csv"] = "new"]

\* both writes raise: the error is printed, the loop goes on
WriteFails ==
    /\ Readable("ok")
    /\ Advance("error")
    /\ processed' = processed \cup {TargetOfStem[raw_files[idx].stem]}
    /\ UNCHANGED stagingDir

\* return True
LoopEnd ==
    /\ ret = "running"
    /\ raw_files # <<>>
    /\ idx > Len(raw_files)
    /\ ret' = "True"
    /\ UNCHANGED <<name, k, target, raw_files, idx, processed, events, stagingDir>>
    /\ UNCHANGED dwVars

\* the process ends; nothing of the run but STAGING_DIR is left
Exit ==
    /\ ret \in {"True", "False"}
    /\ ret' = "exited"
    /\ raw_files' = <<>>
    /\ idx' = 1
    /\ processed' = {}
    /\ events' = <<>>
    /\ name' = "" /\ target' = ""
    /\ UNCHANGED <<k, stagingDir>>
    /\ UNCHANGED dwVars

StagingNext ==
    \/ StartRun \/ NoRawFiles \/ SkipProcessed \/ ReadFails \/ WriteEmpty
    \/ WriteParquet \/ WriteCsvFallback \/ WriteFails \/ LoopEnd \/ Exit

SpecStaging == StagingInit /\ [][StagingNext]_vars

------------------------------------------------------------------------------
(* C7, C9: one staging table per canonical name; the writer's fallback *)

\* the files of this run the loop has dealt with
Done == 1..Len(events)

TargetAt(i) == TargetOfStem[raw_files[i].stem]

Written(i) == events[i] \in {"parquet", "csv"}

\* was read: the loop got past the test on `processed` and called the reader
ReadAttempted(i) == events[i] # "skip"

\* the files of raw_files that map to the canonical name of file i
SameTarget(i) == {j \in 1..Len(raw_files) : TargetAt(j) = TargetAt(i)}

FirstOf(S) == CHOOSE i \in S : \A j \in S : i <= j

ReadableOnes(i) == {j \in SameTarget(i) : raw_files[j].kind # "unreadable"}

\* C7 (as stated): only the first raw file that maps to a canonical name is ever
\* written, and every later one mapping to it is skipped without being read,
\* also when the first one cannot be read or is empty.
C7_FirstMatchingFileWins ==
    \A i \in Done :
        /\ Written(i) => i = FirstOf(SameTarget(i))
        /\ i > FirstOf(SameTarget(i)) => ~ReadAttempted(i)

\* C7 (as amended): for every canonical name at most one raw file is written in
\* a run; it is the first raw file in processing order that maps to the name and
\* can be read; that file is read, and every later file mapping to the name is
\* skipped without being read or written, also when that file was empty or its
\* write failed and nothing was written. A file that cannot be read does not mark
\* its name as processed: the files before the first readable one are read, fail,
\* and are not written.
C7_FirstReadableFileWins ==
    \A i \in Done :
        /\ \A j \in Done : (Written(i) /\ Written(j) /\ TargetAt(i) = TargetAt(j)) => i = j
        /\ Written(i) => i = FirstOf(ReadableOnes(i))
        /\ IF ReadableOnes(i) = {} \/ i < FirstOf(ReadableOnes(i))
           THEN events[i] = "unreadable"
           ELSE IF i = FirstOf(ReadableOnes(i))
           THEN events[i] \in {"empty", "parquet", "csv", "error"}
           ELSE events[i] = "skip"

\* an unreadable first file, then the next file of the same name read and written
C7_Witness ==
    /\ Len(events) = 2
    /\ TargetAt(1) = TargetAt(2)
    /\ events[1] = "unreadable" /\ Written(2)

\* C9: when both writes of a table fail, the error is logged and, after the run,
\* no file of that table, in either format, is in the target directory.
C9_NoFileAfterFailedWrite ==
    ret = "True" =>
        \A i \in Done :
            events[i] = "error" => \A f \in Formats : stagingDir[TargetAt(i)][f] = "none"

------------------------------------------------------------------------------
(* Frames: the part of pandas that tablas.py uses *)

\* a missing cell (None, NaN, NaT); every cell is an integer so that rows compare
Null == 0 - 1
\* a cell of a date column that pd.to_datetime cannot parse
Bad == 0 - 2

\* the Python value None, where a frame is expected
None == [none |-> TRUE]
IsNone(t) == "none" \in DOMAIN t

\* a DataFrame: its column labels and its rows, each row a function on the columns
Frame(cols, rows) == [cols |-> cols, rows |-> rows]

Rows(t) == 1..Len(t.rows)

\* the elements of a set of positions, ascending
Ascending(S) ==
    [i \in 1..Cardinality(S) |-> CHOOSE x \in S : Cardinality({y \in S : y < x}) = i - 1]

\* df.iloc[positions], positions ascending, with reset_index(drop=True)
Take(t, S) == Frame(t.cols, [i \in 1..Cardinality(S) |-> t.rows[Ascending(S)[i]]])

\* df.rename(columns={old: new})
Rename(t, old, new) ==
    LET cs == (t.cols \ {old}) \cup {new}
    IN Frame(cs, [i \in Rows(t) |-> [c \in cs |-> IF c = new THEN t.rows[i][old]
                                                            ELSE t.rows[i][c]]])

\* df.drop_duplicates(subset=subset).reset_index(drop=True): the first row of every
\* group of rows equal on `subset` is kept (missing cells compare equal)
DropDuplicates(t, subset) ==
    Take(t, {i \in Rows(t) :
                \A j \in 1..(i - 1) : \E c \in subset : t.rows[j][c] # t.rows[i][c]})

\* a variant of InsertRange that numbers the rows from 0
InsertRangeFromZero(t, col) ==
    LET cs == t.cols \cup {col}
    IN Frame(cs, [i \in Rows(t) |-> [c \in cs |-> IF c = col THEN i - 1 ELSE t.rows[i][c]]])

\* df.insert(0, col, range(1, len(df)+1))
InsertRange(t, col) ==
    LET cs == t.cols \cup {col}
    IN Frame(cs, [i \in Rows(t) |-> [c \in cs |-> IF c = col THEN i ELSE t.rows[i][c]]])

\* df[col] = values, one value per row
SetColumn(t, col, values) ==
    LET cs == t.cols \cup {col}
    IN Frame(cs, [i \in Rows(t) |-> [c \in cs |-> IF c = col THEN values[i] ELSE t.rows[i][c]]])

\* df[cols], the listed columns only
Project(t, cs) == Frame(cs, [i \in Rows(t) |-> [c \in cs |-> t.rows[i][c]]])

\* df.drop(columns=cs)
DropColumns(t, cs) == Project(t, t.cols \ cs)

\* the Series df[col]
Column(t, col) == [i \in Rows(t) |-> t.rows[i][col]]

RECURSIVE Flatten(_)
Flatten(ss) == IF ss = <<>> THEN <<>> ELSE Head(ss) \o Flatten(Tail(ss))

\* the label a column takes in a merge: labels on both sides get a suffix
Suffixed(c, overlap, suffix) == IF c \in overlap THEN c \o suffix ELSE c

\* left.merge(right, left_on=keys, right_on=rcol, how='left'), keys one value per
\* left row. Every left row is kept, in order, once per right row whose rcol equals
\* its key (missing keys equal each other), and once with missing right cells when
\* there is none. `shared` is the set of labels that are one column in the result
\* (the `on` column).
MergeLeft(left, keys, right, rcol, shared) ==
    LET overlap == (left.cols \cap right.cols) \ shared
        lcols == {Suffixed(c, overlap, "_x") : c \in left.cols}
        rcols == {Suffixed(c, overlap, "_y") : c \in right.cols \ shared}
        cs == lcols \cup rcols
        Joined(i, j) ==
            [c \in cs |->
                IF \E lc \in left.cols : Suffixed(lc, overlap, "_x") = c
                THEN left.rows[i][CHOOSE lc \in left.cols : Suffixed(lc, overlap, "_x") = c]
                ELSE IF j = 0 THEN Null
                ELSE right.rows[j][CHOOSE rc \in right.cols \ shared :
                                        Suffixed(rc, overlap, "_y") = c]]
        Matches(i) == {j \in Rows(right) : right.rows[j][rcol] = keys[i]}
        For(i) == IF Matches(i) = {} THEN <<Joined(i, 0)>>
                  ELSE [n \in 1..Cardinality(Matches(i)) |-> Joined(i, Ascending(Matches(i))[n])]
    IN Frame(cs, Flatten([i \in Rows(left) |-> For(i)]))

\* a variant of MergeOn with how='inner': left rows without a match are dropped
MergeInnerOn(left, right, on) ==
    LET hit == {i \in Rows(left) : \E j \in Rows(right) : right.rows[j][on] = left.rows[i][on]}
    IN MergeLeft(Take(left, hit), Column(Take(left, hit), on), right, on, {on})

\* left.merge(right, on=on, how='left')
MergeOn(left, right, on) == MergeLeft(left, Column(left, on), right, on, {on})

------------------------------------------------------------------------------
(* Timestamps: hours since 1970-01-01 00:00, as pandas counts from the epoch *)

\* days since the epoch of a civil date (proleptic Gregorian calendar)
DaysFromCivil(y, m, d) ==
    LET yy == IF m <= 2 THEN y - 1 ELSE y
        era == yy \div 400
        yoe == yy - era * 400
        mp == (m + 9) % 12
        doy == (153 * mp + 2) \div 5 + d - 1
        doe == yoe * 365 + yoe \div 4 - yoe \div 100 + doy
    IN era * 146097 + doe - 719468

\* the civil date of a day number
CivilFromDays(z) ==
    LET zz == z + 719468
        era == zz \div 146097
        doe == zz - era * 146097
        yoe == (doe - doe \div 1460 + doe \div 36524 - doe \div 146096) \div 365
        doy == doe - (365 * yoe + yoe \div 4 - yoe \div 100)
        mp == (5 * doy + 2) \div 153
        d == doy - (153 * mp + 2) \div 5 + 1
        m == IF mp < 10 THEN mp + 3 ELSE mp - 9
        y == yoe + era * 400 + (IF m <= 2 THEN 1 ELSE 0)
    IN [year |-> y, month |-> m, day |-> d]

Timestamp(y, m, d, h) == DaysFromCivil(y, m, d) * 24 + h

\* Series.dt.year, .month, .day, .weekday (Monday = 0) of a timestamp
DtYear(v) == CivilFromDays(v \div 24).year
DtMonth(v) == CivilFromDays(v \div 24).month
DtDay(v) == CivilFromDays(v \div 24).day
DtWeekday(v) == ((v \div 24) + 3) % 7

\* pd.to_datetime(x, errors='coerce') on one cell
ToDatetime(v) == IF v = Bad THEN Null ELSE v

\* Series.dt.normalize() on one cell: midnight of the same day, NaT stays NaT
Normalize(v) == IF v = Null THEN Null ELSE v - (v % 24)

\* Series.dropna()
DropNa(vs) == SelectSeq(vs, LAMBDA v : v # Null)

\* Series.unique(): the distinct values in order of first appearance
Unique(vs) ==
    LET first == {i \in 1..Len(vs) : \A j \in 1..(i - 1) : vs[j] # vs[i]}
    IN [i \in 1..Cardinality(first) |-> vs[Ascending(first)[i]]]

\* sort_values ascending (stable) and reset_index(drop=True)
SortValues(vs) ==
    LET rank(i) == Cardinality({j \in 1..Len(vs) : vs[j] < vs[i]})
                   + Cardinality({j \in 1..(i - 1) : vs[j] = vs[i]}) + 1
    IN [r \in 1..Len(vs) |-> vs[CHOOSE i \in 1..Len(vs) : rank(i) = r]]

\* Series.min() / .max(), missing cells skipped; NaT when nothing is left
SeriesMin(vs) ==
    LET S == {vs[i] : i \in 1..Len(vs)} \ {Null}
    IN IF S = {} THEN Null ELSE CHOOSE x \in S : \A y \in S : x <= y
SeriesMax(vs) ==
    LET S == {vs[i] : i \in 1..Len(vs)} \ {Null}
    IN IF S = {} THEN Null ELSE CHOOSE x \in S : \A y \in S : x >= y

\* pd.date_range(mn, mx, freq='D')
DateRange(mn, mx) == [i \in 1..((mx - mn) \div 24 + 1) |-> mn + 24 * (i - 1)]

\* the decimal digits of n in a field of w digits, zero padded
ZeroPad(n, w) == [i \in 1..w |-> (n \div (10 ^ (w - i))) % 10]

\* the decimal digits of n without padding
Digits(n) == IF n < 10 THEN ZeroPad(n, 1) ELSE IF n < 100 THEN ZeroPad(n, 2)
             ELSE IF n < 1000 THEN ZeroPad(n, 3) ELSE ZeroPad(n, 4)

\* a variant of Strftime with the format '%Y%-m%-d' (no zero padding)
StrftimeUnpadded(v) == Digits(DtYear(v)) \o Digits(DtMonth(v)) \o Digits(DtDay(v))

\* Series.dt.strftime('%Y%m%d') on one cell: the text, as its digits
Strftime(v) == ZeroPad(DtYear(v), 4) \o ZeroPad(DtMonth(v), 2) \o ZeroPad(DtDay(v), 2)

RECURSIVE AsInt(_)
\* .astype(int) on a string of digits
AsInt(ds) == IF ds = <<>> THEN 0 ELSE AsInt(SubSeq(ds, 1, Len(ds) - 1)) * 10 + ds[Len(ds)]

------------------------------------------------------------------------------
(* tablas.py: reading staging, writing the warehouse *)

StagingNames ==
    {"customers", "products", "stores", "channels", "orders", "sales_order",
     "order_items", "sales_order_item", "address", "product_category",
     "payment", "shipment", "web_session", "nps_response"}

\* read_staging(name): the parquet file if there is one, else the csv file, else None
read_staging(nm) ==
    IF ~IsNone(stg[nm].parquet) THEN stg[nm].parquet
    ELSE IF ~IsNone(stg[nm].csv) THEN stg[nm].csv
    ELSE None

\* d[key] = val on a dict
With(d, key, val) == [x \in DOMAIN d \cup {key} |-> IF x = key THEN val ELSE d[x]]

\* d.get(key)
Get(d, key) == IF key \in DOMAIN d THEN d[key] ELSE None

\* write_table(df, name): DWH_DIR afterwards. Nothing on None or an empty frame;
\* else the parquet file; if to_parquet raises, the csv file; if that raises too,
\* the error is printed. `io` is what the host lets the writes of this run do.
write_table(df, nm) ==
    IF IsNone(df) \/ df.rows = <<>> THEN dwh
    ELSE IF io = "ok" THEN With(dwh, nm \o ".parquet", df)
    ELSE IF io = "no_parquet" THEN With(dwh, nm \o ".csv", df)
    ELSE dwh

IoModes == {"ok", "no_parquet", "no_write"}

\* _ensure_datetime(df, col)
EnsureDatetime(t, col) ==
    IF col \in t.cols THEN SetColumn(t, col, [i \in Rows(t) |-> ToDatetime(t.rows[i][col])])
    ELSE t

------------------------------------------------------------------------------
(* build_dimensions, one block per step *)

\* the tail every keyed dimension block shares: drop_duplicates on the natural key
\* when the frame has it, else on the whole row; then the surrogate key
KeyedDimension(t, key, sk) ==
    InsertRange(DropDuplicates(t, IF key \in t.cols THEN {key} ELSE t.cols), sk)

\* the frame c of the dim_customers block
CustomersDim(customers) ==
    LET c0 == IF "customer_id" \notin customers.cols /\ "id" \in customers.cols
              THEN Rename(customers, "id", "customer_id") ELSE customers
    IN KeyedDimension(EnsureDatetime(c0, "created_at"), "customer_id", "customer_sk")

DimCustomers ==
    /\ pc = "dim_customers"
    /\ LET customers == read_staging("customers")
       IN IF ~IsNone(customers)
          THEN /\ dwh' = write_table(CustomersDim(customers), "dim_customers")
               /\ dims' = With(dims, "customers", CustomersDim(customers))
          ELSE /\ dims' = With(dims, "customers", None)
               /\ UNCHANGED dwh
    /\ pc' = "dim_products"
    /\ UNCHANGED <<stg, facts, io>>
    /\ UNCHANGED <<ruleVars, stagingVars>>

\* the frame p of the dim_products block
ProductsDim(products) ==
    KeyedDimension(EnsureDatetime(products, "created_at"), "product_id", "product_sk")

DimProducts ==
    /\ pc = "dim_products"
    /\ LET products == read_staging("products")
       IN IF ~IsNone(products)
          THEN /\ dwh' = write_table(ProductsDim(products), "dim_products")
               /\ dims' = With(dims, "products", ProductsDim(products))
          ELSE /\ dims' = With(dims, "products", None)
               /\ UNCHANGED dwh
    /\ pc' = "dim_stores"
    /\ UNCHANGED <<stg, facts, io>>
    /\ UNCHANGED <<ruleVars, stagingVars>>

\* the frame s of the dim_stores block
StoresDim(stores) ==
    LET s0 == IF "store_id" \notin stores.cols /\ "channel_id" \in stores.cols
              THEN Rename(stores, "channel_id", "store_id") ELSE stores
    IN KeyedDimension(s0, "store_id", "store_sk")

DimStores ==
    /\ pc = "dim_stores"
    /\ LET stores == IF IsNone(read_staging("stores")) THEN read_staging("channels")
                     ELSE read_staging("stores")
       IN IF ~IsNone(stores)
          THEN /\ dwh' = write_table(StoresDim(stores), "dim_stores")
               /\ dims' = With(dims, "stores", StoresDim(stores))
          ELSE /\ dims' = With(dims, "stores", None)
               /\ UNCHANGED dwh
    /\ pc' = "dim_date"
    /\ UNCHANGED <<stg, facts, io>>
    /\ UNCHANGED <<ruleVars, stagingVars>>

\* pd.to_datetime(df[col], errors='coerce').dt.normalize().dropna().unique()
DistinctDays(t, col) ==
    Unique(DropNa([i \in Rows(t) |-> Normalize(ToDatetime(t.rows[i][col]))]))

HasColumn(t, col) == ~IsNone(t) /\ col \in t.cols

\* a variant of DateSource that looks at customers.created_at first
DateSourceCustomersFirst(orders, customers) ==
    IF HasColumn(customers, "created_at") /\ DistinctDays(customers, "created_at") # <<>>
    THEN DistinctDays(customers, "created_at")
    ELSE IF HasColumn(orders, "order_date") THEN DistinctDays(orders, "order_date")
    ELSE <<>>

\* the column `date` of `dates` before the final block; <<>> stands for both
\* `dates is None` and `dates.empty`, which the code always tests together
DateSource(orders, customers) ==
    LET a == IF HasColumn(orders, "order_date") THEN DistinctDays(orders, "order_date")
             ELSE <<>>
        b == IF a = <<>> /\ HasColumn(customers, "created_at")
             THEN DistinctDays(customers, "created_at") ELSE a
        rng == [i \in Rows(orders) |-> ToDatetime(orders.rows[i]["order_date"])]
    IN IF b = <<>> /\ HasColumn(orders, "order_date")
          /\ SeriesMin(rng) # Null /\ SeriesMax(rng) # Null
       THEN DateRange(Normalize(SeriesMin(rng)), Normalize(SeriesMax(rng)))
       ELSE b

\* the frame `dates` the final block builds from a non-empty date column
DatesDim(days) ==
    LET sorted == SortValues(days)
        cs == {"date_sk", "date", "date_id", "year", "month", "day", "weekday"}
        base == InsertRange(Frame({"date"}, [i \in 1..Len(sorted) |-> [date |-> sorted[i]]]),
                            "date_sk")
    IN Frame(cs, [i \in Rows(base) |->
            [c \in cs |->
                CASE c = "date_sk" -> base.rows[i]["date_sk"]
                  [] c = "date" -> base.rows[i]["date"]
                  [] c = "date_id" -> AsInt(Strftime(base.rows[i]["date"]))
                  [] c = "year" -> DtYear(base.rows[i]["date"])
                  [] c = "month" -> DtMonth(base.rows[i]["date"])
                  [] c = "day" -> DtDay(base.rows[i]["date"])
                  [] c = "weekday" -> DtWeekday(base.rows[i]["date"])]])

DimDate ==
    /\ pc = "dim_date"
    /\ LET days == DateSource(read_staging("orders"), read_staging("customers"))
       IN IF days # <<>>
          THEN /\ dwh' = write_table(DatesDim(days), "dim_date")
               /\ dims' = With(dims, "dates", DatesDim(days))
          ELSE /\ dims' = With(dims, "dates", None)
               /\ UNCHANGED dwh
    /\ pc' = "dim_address"
    /\ UNCHANGED <<stg, facts, io>>
    /\ UNCHANGED <<ruleVars, stagingVars>>

DimAddress ==
    /\ pc = "dim_address"
    /\ LET address == read_staging("address")
       IN IF ~IsNone(address)
          THEN /\ dwh' = write_table(KeyedDimension(address, "address_id", "address_sk"),
                                     "dim_address")
               /\ dims' = With(dims, "address",
                               KeyedDimension(address, "address_id", "address_sk"))
          ELSE /\ dims' = With(dims, "address", None)
               /\ UNCHANGED dwh
    /\ pc' = "dim_product_category"
    /\ UNCHANGED <<stg, facts, io>>
    /\ UNCHANGED <<ruleVars, stagingVars>>

DimProductCategory ==
    /\ pc = "dim_product_category"
    /\ LET cat == read_staging("product_category")
       IN IF ~IsNone(cat)
          THEN /\ dwh' = write_table(
                            KeyedDimension(cat, "category_id", "product_category_sk"),
                            "dim_product_category")
               /\ dims' = With(dims, "product_category",
                               KeyedDimension(cat, "category_id", "product_category_sk"))
          ELSE /\ dims' = With(dims, "product_category", None)
               /\ UNCHANGED dwh
    /\ pc' = "fact_order_lines"
    /\ UNCHANGED <<stg, facts, io>>
    /\ UNCHANGED <<ruleVars, stagingVars>>

------------------------------------------------------------------------------
(* build_facts, one fact table per step *)

\* a * b on cells: missing if either is missing
Mul(a, b) == IF a = Null \/ b = Null THEN Null ELSE a * b

\* f.merge(dim[[sk, key]], on=key, how='left') raises KeyError when the dimension
\* frame has no column `key`
LookupRaises(f, dim, key) == ~IsNone(dim) /\ key \in f.cols /\ key \notin dim.cols

\* if dims.get(x) is not None and key in f.columns:
\*     f = f.merge(dims[x][[sk, key]], on=key, how='left')
Lookup(f, dim, sk, key) ==
    IF ~IsNone(dim) /\ key \in f.cols THEN MergeOn(f, Project(dim, {sk, key}), key)
    ELSE f

\* the date block of every fact: the column is parsed, the frame is left-joined to
\* dims['dates'][rcols] on the normalized day (the join adds the helper column
\* key_0), date_sk is renamed, the helper columns key_0 and date are dropped
MapDate(t, col, dates, rcols, sk) ==
    LET t1 == SetColumn(t, col, [i \in Rows(t) |-> ToDatetime(t.rows[i][col])])
        keys == [i \in Rows(t1) |-> Normalize(t1.rows[i][col])]
        m == MergeLeft(SetColumn(t1, "key_0", keys), keys, Project(dates, rcols), "date", {})
        r == IF "date_sk" \in m.cols THEN Rename(m, "date_sk", sk) ELSE m
    IN DropColumns(r, {"key_0", "date"})

\* f[cols].copy().drop_duplicates().reset_index(drop=True), cols the allowed
\* columns that f has
Select(f, allowed) == DropDuplicates(Project(f, allowed \cap f.cols), allowed \cap f.cols)

OrderHeaderColumns == {"order_id", "order_date", "customer_id", "store_id"}

LineColumns ==
    {"order_id", "order_date_sk", "customer_sk", "product_sk", "store_sk", "quantity",
     "unit_price", "line_total"}

\* if orders is not None and 'order_id' in orders.columns:
\*     f = f.merge(orders[['order_id','order_date','customer_id','store_id']], ...)
HeaderJoin(items, orders) ==
    IF ~IsNone(orders) /\ "order_id" \in orders.cols
    THEN MergeOn(items, Project(orders, OrderHeaderColumns), "order_id")
    ELSE items

\* the header merge raises KeyError when orders lacks one of the selected columns,
\* or when f has no order_id to merge on
HeaderRaises(items, orders) ==
    /\ ~IsNone(orders) /\ "order_id" \in orders.cols
    /\ \/ ~(OrderHeaderColumns \subseteq orders.cols)
       \/ "order_id" \notin items.cols

\* if 'quantity' not in f.columns and 'qty' in f.columns: f['quantity'] = f['qty']
QuantityFromQty(f) ==
    IF "quantity" \notin f.cols /\ "qty" \in f.cols
    THEN SetColumn(f, "quantity", Column(f, "qty")) ELSE f

\* if 'unit_price' not in f.columns and 'price' in f.columns: f['unit_price'] = f['price']
PriceFromPrice(f) ==
    IF "unit_price" \notin f.cols /\ "price" \in f.cols
    THEN SetColumn(f, "unit_price", Column(f, "price")) ELSE f

\* the frame f of the fact_order_lines block before the dimension lookups
LineHeader(items, orders) == PriceFromPrice(QuantityFromQty(HeaderJoin(items, orders)))

\* the three dimension lookups of the fact_order_lines block
LineKeys(f, d) ==
    Lookup(Lookup(Lookup(f, Get(d, "customers"), "customer_sk", "customer_id"),
                  Get(d, "products"), "product_sk", "product_id"),
           Get(d, "stores"), "store_sk", "store_id")

\* one of the three lookups raises
LineKeysRaise(f, d) ==
    \/ LookupRaises(f, Get(d, "customers"), "customer_id")
    \/ LookupRaises(Lookup(f, Get(d, "customers"), "customer_sk", "customer_id"),
                    Get(d, "products"), "product_id")
    \/ LookupRaises(Lookup(Lookup(f, Get(d, "customers"), "customer_sk", "customer_id"),
                           Get(d, "products"), "product_sk", "product_id"),
                    Get(d, "stores"), "store_id")

\* if dims.get('dates') is not None and col in f.columns: the date block
DateStep(f, col, d, rcols, sk) ==
    IF ~IsNone(Get(d, "dates")) /\ col \in f.cols
    THEN MapDate(f, col, Get(d, "dates"), rcols, sk)
    ELSE f

\* if 'quantity' not in f.columns: f['quantity'] = 1
DefaultQuantity(f) ==
    IF "quantity" \notin f.cols THEN SetColumn(f, "quantity", [i \in Rows(f) |-> 1]) ELSE f

\* line_total = quantity * unit_price when f has unit_price, else a missing
\* line_total unless f has one
LineTotal(f) ==
    IF "unit_price" \in f.cols
    THEN SetColumn(f, "line_total",
             [i \in Rows(f) |-> Mul(f.rows[i]["quantity"], f.rows[i]["unit_price"])])
    ELSE IF "line_total" \notin f.cols
    THEN SetColumn(f, "line_total", [i \in Rows(f) |-> Null])
    ELSE f

\* what a fact block comes to: whether it raises, and else the frame handed to
\* write_table
Block(raises, f, allowed) ==
    [raised |-> raises, frame |-> IF raises THEN None ELSE Select(f, allowed)]

\* the block of fact_order_lines for a frame `items`
OrderLines(items, orders, d) ==
    Block(HeaderRaises(items, orders) \/ LineKeysRaise(LineHeader(items, orders), d),
          LineTotal(DefaultQuantity(
              DateStep(LineKeys(LineHeader(items, orders), d), "order_date", d,
                       {"date_sk", "date", "date_id"}, "order_date_sk"))),
          LineColumns)

\* read_staging(first) if it is there, else read_staging(second)
ReadEither(first, second) ==
    IF IsNone(read_staging(first)) THEN read_staging(second) ELSE read_staging(first)

\* one fact block: skipped with a warning when its staging table is missing, the
\* end of main() when it raises, else the frame is handed to write_table
FactStep(here, next, table, src, r) ==
    /\ pc = here
    /\ IF IsNone(src)
       THEN pc' = next /\ UNCHANGED <<facts, dwh>>
       ELSE IF r.raised
       THEN pc' = "raised" /\ UNCHANGED <<facts, dwh>>
       ELSE /\ pc' = next
            /\ facts' = With(facts, table, r.frame)
            /\ dwh' = write_table(r.frame, table)
    /\ UNCHANGED <<stg, dims, io>>
    /\ UNCHANGED <<ruleVars, stagingVars>>

FactOrderLines ==
    LET items == ReadEither("order_items", "sales_order_item")
        orders == ReadEither("orders", "sales_order")
    IN FactStep("fact_order_lines", "fact_orders", "fact_order_lines", items,
                IF IsNone(items) THEN None ELSE OrderLines(items, orders, dims))

OrderColumns ==
    {"order_id", "order_date_sk", "customer_sk", "store_sk", "status", "subtotal",
     "tax_amount", "shipping_fee", "total_amount"}

\* the two dimension lookups of the fact_orders block
OrderKeys(f, d) ==
    Lookup(Lookup(f, Get(d, "customers"), "customer_sk", "customer_id"),
           Get(d, "stores"), "store_sk", "store_id")

OrderKeysRaise(f, d) ==
    \/ LookupRaises(f, Get(d, "customers"), "customer_id")
    \/ LookupRaises(Lookup(f, Get(d, "customers"), "customer_sk", "customer_id"),
                    Get(d, "stores"), "store_id")

\* the block of fact_orders
Orders(orders, d) ==
    Block(OrderKeysRaise(orders, d),
          DateStep(OrderKeys(orders, d), "order_date", d, {"date_sk", "date"},
                   "order_date_sk"),
          OrderColumns)

FactOrders ==
    LET orders == ReadEither("orders", "sales_order")
    IN FactStep("fact_orders", "fact_payments", "fact_orders", orders,
                IF IsNone(orders) THEN None ELSE Orders(orders, dims))

PaymentColumns ==
    {"payment_id", "order_id", "payment_date_sk", "amount", "status", "payment_method"}

\* the block of fact_payments: the date is mapped only if the frame has order_id
Payments(pay, d) ==
    Block(FALSE,
          IF "order_id" \in pay.cols
          THEN DateStep(pay, "created_at", d, {"date_sk", "date"}, "payment_date_sk") ELSE pay,
          PaymentColumns)

FactPayments ==
    LET payments == read_staging("payment")
    IN FactStep("fact_payments", "fact_shipments", "fact_payments", payments,
                IF IsNone(payments) THEN None ELSE Payments(payments, dims))

ShipmentColumns ==
    {"shipment_id", "order_id", "shipped_date_sk", "carrier", "status", "tracking_number"}

\* the block of fact_shipments: the date is mapped only if the frame has order_id
Shipments(sh, d) ==
    Block(FALSE,
          IF "order_id" \in sh.cols
          THEN DateStep(sh, "shipped_at", d, {"date_sk", "date"}, "shipped_date_sk") ELSE sh,
          ShipmentColumns)

FactShipments ==
    LET shipments == read_staging("shipment")
    IN FactStep("fact_shipments", "fact_web_sessions", "fact_shipments", shipments,
                IF IsNone(shipments) THEN None ELSE Shipments(shipments, dims))

SessionColumns ==
    {"session_id", "customer_id", "session_date_sk", "page_views", "duration_seconds"}

\* the block of fact_web_sessions
Sessions(ws, d) ==
    Block(FALSE, DateStep(ws, "started_at", d, {"date_sk", "date"}, "session_date_sk"), SessionColumns)

FactWebSessions ==
    LET ws == read_staging("web_session")
    IN FactStep("fact_web_sessions", "fact_nps", "fact_web_sessions", ws,
                IF IsNone(ws) THEN None ELSE Sessions(ws, dims))

NpsColumns == {"nps_id", "customer_id", "response_date_sk", "score", "comment"}

\* the block of fact_nps
Nps(nps, d) ==
    Block(FALSE, DateStep(nps, "response_date", d, {"date_sk", "date"}, "response_date_sk"), NpsColumns)

FactNps ==
    LET nps == read_staging("nps_response")
    IN FactStep("fact_nps", "done", "fact_nps", nps,
                IF IsNone(nps) THEN None ELSE Nps(nps, dims))

------------------------------------------------------------------------------
(* The staging directories the warehouse builder is run on *)

\* the non-empty sequences over S of length at most n
Seqs(S, n) == UNION {[1..m -> S] : m \in 1..n}

\* STAGING_DIR holding the given frames as parquet files and nothing else
StagingOf(assign) ==
    [n \in StagingNames |->
        [parquet |-> IF n \in DOMAIN assign THEN assign[n] ELSE None, csv |-> None]]

(* -- one table that feeds a keyed dimension, with or without its natural key *)

KeyedSources ==
    { <<"customers", "customer_id">>, <<"customers", "id">>,
      <<"products", "product_id">>, <<"stores", "store_id">>,
      <<"stores", "channel_id">>, <<"channels", "channel_id">>,
      <<"address", "address_id">>, <<"product_category", "category_id">> }

KeyedTables(key) ==
    {Frame({key, "label"}, rows) :
        rows \in Seqs({[c \in {key, "label"} |-> IF c = key THEN i ELSE l] :
                          i \in 1..MaxId, l \in 1..2}, MaxRows)}

UnkeyedTables ==
    {Frame({"label"}, rows) : rows \in Seqs({[c \in {"label"} |-> l] : l \in 1..MaxId}, MaxRows)}

\* three rows, the third repeating the natural key of the first
RepeatedKey(key) ==
    Frame({key, "label"},
          <<[c \in {key, "label"} |-> IF c = key THEN 2 ELSE 1],
            [c \in {key, "label"} |-> 1],
            [c \in {key, "label"} |-> 2]>>)

KeyedInputs ==
    UNION {{StagingOf(src[1] :> t) :
               t \in KeyedTables(src[2]) \cup UnkeyedTables \cup {RepeatedKey(src[2])}} :
              src \in KeyedSources}

(* -- orders and customers with date columns, for the date dimension *)

DayA == Timestamp(2024, 1, 5, 0)
DayALater == Timestamp(2024, 1, 5, 13)
DayB == Timestamp(2023, 12, 31, 8)
DayC == Timestamp(2024, 2, 29, 10)

DateCells == {Null, Bad, DayA, DayALater, DayB}

OrdersWithDates(ds) ==
    Frame(OrderHeaderColumns,
          [i \in 1..Len(ds) |->
              [order_id |-> 100 + i, order_date |-> ds[i], customer_id |-> 1, store_id |-> 1]])

OrdersForDates ==
    {None, Frame({"order_id"}, <<[order_id |-> 100]>>)}
    \cup {OrdersWithDates(ds) : ds \in Seqs(DateCells, MaxRows)}

CustomersWithDates(ds) ==
    Frame({"customer_id", "created_at"},
          [i \in 1..Len(ds) |-> [customer_id |-> i, created_at |-> ds[i]]])

CustomersForDates ==
    {None, Frame({"customer_id"}, <<[customer_id |-> 1]>>),
     CustomersWithDates(<<Null>>), CustomersWithDates(<<DayC>>),
     CustomersWithDates(<<DayC, DayB, DayC>>)}

DateInputs ==
    {StagingOf(IF IsNone(o) THEN (IF IsNone(c) THEN <<>> ELSE "customers" :> c)
               ELSE IF IsNone(c) THEN "orders" :> o
               ELSE ("orders" :> o) @@ ("customers" :> c)) :
        o \in OrdersForDates, c \in CustomersForDates}

(* -- order_items and orders, with and without the keyed dimensions *)

ItemRows ==
    { [order_id |-> 100, product_id |-> 9, quantity |-> 2, unit_price |-> 10],
      [order_id |-> 100, product_id |-> 8, quantity |-> 2, unit_price |-> 10],
      [order_id |-> 101, product_id |-> 9, quantity |-> 3, unit_price |-> 10] }

ItemTables ==
    {Frame({"order_id", "product_id", "quantity", "unit_price"}, rows) :
        rows \in Seqs(ItemRows, MaxLines)}

OrderRows ==
    { [order_id |-> 100, order_date |-> DayA, customer_id |-> 1, store_id |-> 1],
      [order_id |-> 100, order_date |-> DayB, customer_id |-> 1, store_id |-> 1],
      [order_id |-> 101, order_date |-> DayALater, customer_id |-> 2, store_id |-> 7] }

\* orders with all header columns, and the same without store_id
OrderTables ==
    {Frame(OrderHeaderColumns, rows) : rows \in Seqs(OrderRows, MaxLines)}
    \cup {Project(Frame(OrderHeaderColumns, rows), OrderHeaderColumns \ {"store_id"}) :
             rows \in Seqs(OrderRows, MaxLines)}

\* the staging tables of the keyed dimensions: none, or one row each
DimensionTables ==
    { <<>>,
      ("customers" :> Frame({"customer_id"}, <<[customer_id |-> 1]>>))
      @@ ("products" :> Frame({"product_id"}, <<[product_id |-> 9]>>))
      @@ ("stores" :> Frame({"store_id"}, <<[store_id |-> 1]>>)) }

FactInputs ==
    {StagingOf(("order_items" :> it) @@ ("orders" :> o) @@ ds) :
        it \in ItemTables, o \in OrderTables, ds \in DimensionTables}

(* -- one table that feeds a dated fact, next to orders that give two days *)

SideSources ==
    { <<"payment", "created_at", {"payment_id", "order_id"}>>,
      <<"payment", "created_at", {"payment_id"}>>,
      <<"shipment", "shipped_at", {"shipment_id", "order_id"}>>,
      <<"shipment", "shipped_at", {"shipment_id"}>>,
      <<"web_session", "started_at", {"session_id"}>>,
      <<"nps_response", "response_date", {"nps_id"}>>,
      <<"sales_order_item", "shipped_at", {"order_id"}>>,
      <<"sales_order", "order_date", {"order_id"}>> }

SideTables(datecol, ids) ==
    {Frame(ids \cup {datecol},
           [i \in 1..Len(ds) |-> [c \in ids \cup {datecol} |-> IF c = datecol THEN ds[i] ELSE 100]]) :
        ds \in Seqs({Null, DayA, DayALater, DayC}, MaxRows)}

SideInputs ==
    UNION {{StagingOf((src[1] :> t) @@ ("customers" :> CustomersWithDates(<<DayA, DayB>>))) :
               t \in SideTables(src[2], src[3])} : src \in SideSources}

(* -- order_items under the other names of the measure columns *)

MeasureColumns ==
    { {"order_id", "qty", "price"}, {"order_id", "units", "precio"},
      {"order_id", "price", "unit_price"}, {"order_id", "quantity", "unitprice"},
      {"order_id"} }

MeasureCell(c) ==
    CASE c = "order_id" -> 100
      [] c \in {"quantity", "qty", "units"} -> 3
      [] c = "unit_price" -> 12
      [] OTHER -> 10

MeasureInputs ==
    {StagingOf("order_items" :> Frame(cs, <<[c \in cs |-> MeasureCell(c)]>>)) :
        cs \in MeasureColumns}

StagingInputs == KeyedInputs \cup DateInputs \cup FactInputs \cup SideInputs \cup MeasureInputs

------------------------------------------------------------------------------
(* The warehouse builder: main() of tablas.py *)

DWInit ==
    /\ name = "" /\ k = 1 /\ target = ""
    /\ raw_files = <<>> /\ idx = 1 /\ processed = {} /\ events = <<>>
    /\ ret = "exited" /\ stagingDir = <<>>
    /\ pc = "dim_customers"
    /\ stg \in StagingInputs
    /\ dims = <<>>
    /\ facts = <<>>
    /\ dwh = <<>>
    /\ io \in IoModes

DWNext ==
    \/ DimCustomers \/ DimProducts \/ DimStores \/ DimDate \/ DimAddress
    \/ DimProductCategory
    \/ FactOrderLines \/ FactOrders \/ FactPayments \/ FactShipments
    \/ FactWebSessions \/ FactNps

SpecDW == DWInit /\ [][DWNext]_vars

------------------------------------------------------------------------------
(* Properties of build_dimensions *)

\* main() has come to its end: build_facts returned, or a KeyError ended the run
Ended == pc \in {"done", "raised"}

\* build_dimensions has built the dimension d
Built(d) == d \in DOMAIN dims /\ ~IsNone(dims[d])

\* the dimensions, each with its surrogate key and its natural key
DimensionKeys ==
    { <<"customers", "customer_sk", "customer_id">>,
      <<"products", "product_sk", "product_id">>,
      <<"stores", "store_sk", "store_id">>,
      <<"dates", "date_sk", "date">>,
      <<"address", "address_sk", "address_id">>,
      <<"product_category", "product_category_sk", "category_id">> }

\* C1: every dimension that build_dimensions builds is non-empty, its surrogate key
\* is the row position 1..N, and N is the row count after deduplication: no two
\* rows agree on the natural key (on the whole source row when the table has no
\* natural key).
C1_SurrogateKeysDense ==
    \A e \in DimensionKeys :
        Built(e[1]) =>
            /\ dims[e[1]].rows # <<>>
            /\ \A i \in Rows(dims[e[1]]) : dims[e[1]].rows[i][e[2]] = i
            /\ \A i, j \in Rows(dims[e[1]]) :
                   i < j =>
                       \E c \in (IF e[3] \in dims[e[1]].cols THEN {e[3]}
                                 ELSE dims[e[1]].cols \ {e[2]}) :
                           dims[e[1]].rows[i][c] # dims[e[1]].rows[j][c]

\* dim_customers built from three rows of which two share the natural key
C1_Witness ==
    /\ Built("customers")
    /\ Len(read_staging("customers").rows) = 3
    /\ Len(dims["customers"].rows) = 2
    /\ dims["customers"].rows[2]["customer_sk"] = 2

\* the calendar days of the parsable cells of a column
ParsedDays(t, col) ==
    {t.rows[i][col] - (t.rows[i][col] % 24) :
        i \in {n \in Rows(t) : t.rows[n][col] \notin {Null, Bad}}}

\* the days of the column the date dimension is built from: orders.order_date
\* when it gives a day, else customers.created_at
ChosenDays ==
    IF HasColumn(read_staging("orders"), "order_date")
       /\ ParsedDays(read_staging("orders"), "order_date") # {}
    THEN ParsedDays(read_staging("orders"), "order_date")
    ELSE IF HasColumn(read_staging("customers"), "created_at")
    THEN ParsedDays(read_staging("customers"), "created_at")
    ELSE {}

\* C10: a date dimension holds one row per distinct day of the chosen source column
\* (missing and unparsable cells left out), ascending by date, date_sk = 1..N in
\* that order, and date_id = year*10000 + month*100 + day of the row's date.
C10_DateDimension ==
    Built("dates") =>
        /\ {dims["dates"].rows[i]["date"] : i \in Rows(dims["dates"])} = ChosenDays
        /\ Len(dims["dates"].rows) = Cardinality(ChosenDays)
        /\ \A i \in Rows(dims["dates"]) :
               /\ dims["dates"].rows[i]["date_sk"] = i
               /\ i > 1 => dims["dates"].rows[i - 1]["date"] < dims["dates"].rows[i]["date"]
               /\ dims["dates"].rows[i]["date_id"] =
                      dims["dates"].rows[i]["year"] * 10000
                      + dims["dates"].rows[i]["month"] * 100
                      + dims["dates"].rows[i]["day"]
               /\ Timestamp(dims["dates"].rows[i]["year"], dims["dates"].rows[i]["month"],
                            dims["dates"].rows[i]["day"], 0) = dims["dates"].rows[i]["date"]

\* a date dimension of two days, built from a column that holds one day twice and
\* the later day first
C10_Witness ==
    /\ Built("dates")
    /\ read_staging("customers") = CustomersWithDates(<<DayC, DayB, DayC>>)
    /\ ~HasColumn(read_staging("orders"), "order_date")
    /\ Len(dims["dates"].rows) = 2
    /\ dims["dates"].rows[1]["date_id"] = 20231231
    /\ dims["dates"].rows[2]["date_id"] = 20240229

------------------------------------------------------------------------------
(* Properties of build_facts *)

\* the staging table a fact table is built from
PrimarySource(fact) ==
    CASE fact = "fact_order_lines" -> ReadEither("order_items", "sales_order_item")
      [] fact = "fact_orders" -> ReadEither("orders", "sales_order")
      [] fact = "fact_payments" -> read_staging("payment")
      [] fact = "fact_shipments" -> read_staging("shipment")
      [] fact = "fact_web_sessions" -> read_staging("web_session")
      [] fact = "fact_nps" -> read_staging("nps_response")

FactNames ==
    {"fact_order_lines", "fact_orders", "fact_payments", "fact_shipments",
     "fact_web_sessions", "fact_nps"}

\* the surrogate key the dimension d gives the natural key v, missing when no row
\* of the dimension has it
SkOf(d, sk, key, v) ==
    IF \E i \in Rows(dims[d]) : dims[d].rows[i][key] = v
    THEN dims[d].rows[CHOOSE i \in Rows(dims[d]) : dims[d].rows[i][key] = v][sk]
    ELSE Null

\* the day of a date cell as the date dimension holds it
DayOf(v) == IF v \in {Null, Bad} THEN Null ELSE v - (v % 24)

\* the fact row `row` carries on one axis the surrogate key of the natural key v
\* (when the dimension is built and the fact has the axis)
Axis(row, d, sk, key, v) ==
    (Built(d) /\ sk \in DOMAIN row) => row[sk] = SkOf(d, sk, key, v)

DateAxis(row, sk, v) ==
    (Built("dates") /\ sk \in DOMAIN row) => row[sk] = SkOf("dates", "date_sk", "date", DayOf(v))

\* the order headers an order line is joined to; one header of missing cells when
\* no row of orders has its order_id
HeadersOf(orders, id) ==
    IF \E j \in Rows(orders) : orders.rows[j]["order_id"] = id
    THEN {orders.rows[j] : j \in {n \in Rows(orders) : orders.rows[n]["order_id"] = id}}
    ELSE {[c \in OrderHeaderColumns |-> IF c = "order_id" THEN id ELSE Null]}

\* every row of order_items is in fact_order_lines once per header, with the
\* surrogate keys of its customer, product, store and day, each missing when the
\* dimension has no such row
LinesKept ==
    ("fact_order_lines" \in DOMAIN facts
        /\ HasColumn(PrimarySource("fact_orders"), "store_id")
        /\ HasColumn(PrimarySource("fact_order_lines"), "product_id")) =>
        \A i \in Rows(PrimarySource("fact_order_lines")) :
            \A h \in HeadersOf(PrimarySource("fact_orders"),
                               PrimarySource("fact_order_lines").rows[i]["order_id"]) :
                \E r \in Rows(facts["fact_order_lines"]) :
                    /\ facts["fact_order_lines"].rows[r]["order_id"] = h["order_id"]
                    /\ facts["fact_order_lines"].rows[r]["quantity"] =
                           PrimarySource("fact_order_lines").rows[i]["quantity"]
                    /\ Axis(facts["fact_order_lines"].rows[r], "customers", "customer_sk",
                            "customer_id", h["customer_id"])
                    /\ Axis(facts["fact_order_lines"].rows[r], "products", "product_sk",
                            "product_id", PrimarySource("fact_order_lines").rows[i]["product_id"])
                    /\ Axis(facts["fact_order_lines"].rows[r], "stores", "store_sk",
                            "store_id", h["store_id"])
                    /\ DateAxis(facts["fact_order_lines"].rows[r], "order_date_sk",
                                h["order_date"])

\* every row of orders is in fact_orders with the surrogate keys of its customer,
\* store and day
OrdersKept ==
    ("fact_orders" \in DOMAIN facts
        /\ HasColumn(PrimarySource("fact_orders"), "store_id")) =>
        \A j \in Rows(PrimarySource("fact_orders")) :
            \E r \in Rows(facts["fact_orders"]) :
                /\ facts["fact_orders"].rows[r]["order_id"] =
                       PrimarySource("fact_orders").rows[j]["order_id"]
                /\ Axis(facts["fact_orders"].rows[r], "customers", "customer_sk",
                        "customer_id", PrimarySource("fact_orders").rows[j]["customer_id"])
                /\ Axis(facts["fact_orders"].rows[r], "stores", "store_sk",
                        "store_id", PrimarySource("fact_orders").rows[j]["store_id"])
                /\ DateAxis(facts["fact_orders"].rows[r], "order_date_sk",
                            PrimarySource("fact_orders").rows[j]["order_date"])

\* the dated facts: the fact, its date column, its date key
DatedFacts ==
    { <<"fact_payments", "created_at", "payment_date_sk">>,
      <<"fact_shipments", "shipped_at", "shipped_date_sk">>,
      <<"fact_web_sessions", "started_at", "session_date_sk">>,
      <<"fact_nps", "response_date", "response_date_sk">> }

\* every row of a dated source is in its fact with the surrogate key of its day
DatedKept ==
    \A e \in DatedFacts :
        e[1] \in DOMAIN facts =>
            \A i \in Rows(PrimarySource(e[1])) :
                \E r \in Rows(facts[e[1]]) :
                    /\ \A c \in facts[e[1]].cols \ {e[3]} :
                           facts[e[1]].rows[r][c] = PrimarySource(e[1]).rows[i][c]
                    /\ DateAxis(facts[e[1]].rows[r], e[3], PrimarySource(e[1]).rows[i][e[2]])

\* C2: a fact row whose natural key (customer, product, store, day) has no row in
\* the dimension stays in the fact table with a missing surrogate key on that axis;
\* no row is dropped by a dimension lookup.
C2_UnmatchedRowsKept == LinesKept /\ OrdersKept /\ DatedKept

\* an order line of order 101, whose store 7 is not in dim_stores, is in
\* fact_order_lines with store_sk missing
C2_Witness ==
    /\ "fact_order_lines" \in DOMAIN facts
    /\ Built("stores")
    /\ SkOf("stores", "store_sk", "store_id", 7) = Null
    /\ \E j \in Rows(read_staging("orders")) :
           /\ read_staging("orders").rows[j]["order_id"] = 101
           /\ read_staging("orders").rows[j]["store_id"] = 7
    /\ \E i \in Rows(read_staging("order_items")) :
           read_staging("order_items").rows[i]["order_id"] = 101
    /\ \E r \in Rows(facts["fact_order_lines"]) :
           /\ facts["fact_order_lines"].rows[r]["order_id"] = 101
           /\ facts["fact_order_lines"].rows[r]["store_sk"] = Null

\* C3: no fact table has more rows than the staging table it is built from.
C3_FactNoLargerThanSource ==
    \A fact \in FactNames \ {"fact_orders"} :
        fact \in DOMAIN facts => Len(facts[fact].rows) <= Len(PrimarySource(fact).rows)

\* the staging directory of the end-to-end scenario: one order without store_id,
\* one order line
ScenarioStaging ==
    StagingOf(("order_items" :>
                  Frame({"order_id", "product_id", "quantity", "unit_price"},
                        <<[order_id |-> 100, product_id |-> 9, quantity |-> 2,
                           unit_price |-> 10]>>))
              @@ ("orders" :>
                  Frame({"order_id", "order_date", "customer_id"},
                        <<[order_id |-> 100, order_date |-> DayA, customer_id |-> 1]>>)))

\* C4: on the scenario the run completes and fact_order_lines has exactly one row,
\* with line_total 20 and order_date_sk the date_sk of 2024-01-05 in dim_date.
C4_ScenarioBuildsOneLine ==
    (stg = ScenarioStaging /\ Ended) =>
        /\ pc = "done"
        /\ "fact_order_lines" \in DOMAIN facts
        /\ Len(facts["fact_order_lines"].rows) = 1
        /\ facts["fact_order_lines"].rows[1]["line_total"] = 20
        /\ Built("dates")
        /\ "order_date_sk" \in facts["fact_order_lines"].cols
        /\ facts["fact_order_lines"].rows[1]["order_date_sk"] # Null
        /\ facts["fact_order_lines"].rows[1]["order_date_sk"] =
               SkOf("dates", "date_sk", "date", DayA)

\* C8: at the end of the run every fact table whose primary staging table is there
\* has been built and handed to write_table.
C8_EveryPresentFactBuilt ==
    Ended => \A fact \in FactNames : ~IsNone(PrimarySource(fact)) => fact \in DOMAIN facts

------------------------------------------------------------------------------
(* Properties across runs *)

\* C11: when a staging run has returned True, every file in STAGING_DIR was
\* written by that run; no file of an earlier run is left.
C11_OnlyFilesOfThisRun ==
    ret = "True" => \A t \in TargetNames : \A f \in Formats : stagingDir[t][f] # "old"

------------------------------------------------------------------------------
(* Source of the date dimension *)

\* the days each of the three sources yields
OrderDays ==
    IF HasColumn(read_staging("orders"), "order_date")
    THEN ParsedDays(read_staging("orders"), "order_date") ELSE {}

CustomerDays ==
    IF HasColumn(read_staging("customers"), "created_at")
    THEN ParsedDays(read_staging("customers"), "created_at") ELSE {}

\* every day from the first to the last day of orders.order_date
OrderSpanDays ==
    UNION {{x + 24 * n : n \in 0..((y - x) \div 24)} : x \in OrderDays, y \in OrderDays}

\* the first of the three that yields a day
FirstYielding ==
    IF OrderDays # {} THEN OrderDays
    ELSE IF CustomerDays # {} THEN CustomerDays
    ELSE OrderSpanDays

------------------------------------------------------------------------------
(* Measures of fact_order_lines *)

QuantityNames == <<"quantity", "qty", "units">>
PriceNames == <<"price", "unit_price", "unitprice", "precio">>

\* the first name of the list that is a column of t; "" when none is
FirstPresent(t, names) ==
    IF \E n \in 1..Len(names) : names[n] \in t.cols
    THEN names[CHOOSE n \in 1..Len(names) :
                   names[n] \in t.cols /\ \A m \in 1..(n - 1) : names[m] \notin t.cols]
    ELSE ""

QuantityOf(t, i) ==
    IF FirstPresent(t, QuantityNames) = "" THEN 1 ELSE t.rows[i][FirstPresent(t, QuantityNames)]

PriceOf(t, i) ==
    IF FirstPresent(t, PriceNames) = "" THEN Null ELSE t.rows[i][FirstPresent(t, PriceNames)]

\* C13: every order line is in fact_order_lines with the quantity of its quantity
\* column (quantity, qty or units; 1 when there is none), the unit price of the
\* first of price, unit_price, unitprice, precio that is there, and line_total
\* their product, missing when there is no price column.
C13_MeasuresFromRecognizedColumns ==
    "fact_order_lines" \in DOMAIN facts =>
        \A i \in Rows(PrimarySource("fact_order_lines")) :
            \E r \in Rows(facts["fact_order_lines"]) :
                /\ facts["fact_order_lines"].rows[r]["order_id"] =
                       PrimarySource("fact_order_lines").rows[i]["order_id"]
                /\ facts["fact_order_lines"].rows[r]["quantity"] =
                       QuantityOf(PrimarySource("fact_order_lines"), i)
                /\ facts["fact_order_lines"].rows[r]["line_total"] =
                       Mul(QuantityOf(PrimarySource("fact_order_lines"), i),
                           PriceOf(PrimarySource("fact_order_lines"), i))
                /\ PriceOf(PrimarySource("fact_order_lines"), i) # Null =>
                       /\ "unit_price" \in facts["fact_order_lines"].cols
                       /\ facts["fact_order_lines"].rows[r]["unit_price"] =
                              PriceOf(PrimarySource("fact_order_lines"), i)

------------------------------------------------------------------------------
(* Date keys of the facts *)

\* every fact with its timestamp column and its date key
FactDates ==
    DatedFacts \cup { <<"fact_order_lines", "order_date", "order_date_sk">>,
                      <<"fact_orders", "order_date", "order_date_sk">> }

\* C14: a fact that is built while the date dimension is there, from a staging
\* table that has the fact's timestamp column, has its date key column, resolved
\* row by row on the calendar day, and none of the helper columns of the join,
\* whatever the other columns of the staging table.
C14_DateKeyWheneverTimestamp ==
    \A e \in FactDates :
        (e[1] \in DOMAIN facts /\ Built("dates") /\ e[2] \in PrimarySource(e[1]).cols) =>
            /\ e[3] \in facts[e[1]].cols
            /\ facts[e[1]].cols \cap {"key_0", "date", "date_sk"} = {}
            /\ \A i \in Rows(PrimarySource(e[1])) :
                   \E r \in Rows(facts[e[1]]) :
                       facts[e[1]].rows[r][e[3]] =
                           SkOf("dates", "date_sk", "date", DayOf(PrimarySource(e[1]).rows[i][e[2]]))

====
